---- MODULE Spec2Model ----
(***************************************************************************)
(* Model of cli/src/argparse/subcommand.rs: the subcommand grammars        *)
(* (Version, Help, Add, Modify, List, Info, Gc, Sync), the dispatcher      *)
(* Subcommand::parse and the usage registry filled by get_usage.           *)
(*                                                                         *)
(* A parser takes a token stream (a sequence of strings) and returns a     *)
(* result record: Ok(value, rest) or Err(at), where `at` is the stream the *)
(* failing parser was applied to (nom's Err::Error((input, kind))).        *)
(***************************************************************************)
EXTENDS Integers, Sequences, FiniteSets, TLC

VARIABLES input, result, called, ts_in, ts_out, u0, u, calls

vars == <<input, result, called, ts_in, ts_out, u0, u, calls>>

(***************************************************************************)
(* Bounds of the model.                                                    *)
(***************************************************************************)
MaxLen == 3
MaxPrior == 2
MaxCalls == 2

(***************************************************************************)
(* Tokens.                                                                 *)
(***************************************************************************)
Keywords ==
    {"version", "--version", "help", "--help", "-h", "add", "modify", "prepend",
     "append", "start", "stop", "done", "list", "info", "debug", "gc", "sync"}

\* tokens that the id-list filter argument accepts, with the ids they denote
IdListOf == [t \in {"123", "12,13"} |-> IF t = "123" THEN <<123>> ELSE <<12, 13>>]

IdTokens == DOMAIN IdListOf

Words == {"foo"}

Tokens == Keywords \cup IdTokens \cup Words

\* the token streams of n tokens
StreamsOfLen(n) == [1..n -> Tokens]

(***************************************************************************)
(* Parse results and the nom combinators used by the grammars.             *)
(***************************************************************************)
Ok(v, rest) == [ok |-> TRUE, value |-> v, rest |-> rest]

Err(at) == [ok |-> FALSE, kind |-> "NoMatch", rest |-> at]

\* arg_matching(literal(lit)): consume one token when it equals lit
arg_matching_literal(in, lit) ==
    IF in # <<>> /\ Head(in) = lit THEN Ok(Head(in), Tail(in)) ELSE Err(in)

\* alt((p1, ..., pn))(input), given the results of p1..pn on input, in order:
\* the first success, else the error of the last alternative
RECURSIVE alt(_)
alt(rs) ==
    IF Len(rs) = 1 \/ Head(rs).ok THEN Head(rs) ELSE alt(Tail(rs))

(***************************************************************************)
(* Values.                                                                 *)
(***************************************************************************)
None == <<"None">>

Some(x) == <<"Some", x>>

Status == {"Pending", "Completed", "Deleted"}

Unset == <<"Unset">>

Set(s) == <<"Set", s>>

Append_(s) == <<"Append", s>>

Prepend(s) == <<"Prepend", s>>

DefaultModification == [description |-> Unset, status |-> None, active |-> None]

DefaultFilter == [universe |-> <<"Default">>]

DefaultReport == [filter |-> DefaultFilter]

(***************************************************************************)
(* The external parsers: Filter, Modification, Report.                     *)
(***************************************************************************)
\* fold one id-list argument into the filter
Filter_fold_args(acc, ids) ==
    IF acc.universe[1] = "IdList"
    THEN [acc EXCEPT !.universe = <<"IdList", acc.universe[2] \o ids>>]
    ELSE [acc EXCEPT !.universe = <<"IdList", ids>>]

RECURSIVE Filter_fold(_, _)
Filter_fold(acc, in) ==
    IF in # <<>> /\ Head(in) \in IdTokens
    THEN Filter_fold(Filter_fold_args(acc, IdListOf[Head(in)]), Tail(in))
    ELSE Ok(acc, in)

\* Filter::parse: zero or more leading filter tokens; never fails
Filter_parse(in) == Filter_fold(DefaultFilter, in)

\* fold one description word into the modification
Modification_fold(acc, word) ==
    IF acc.description[1] = "Set"
    THEN [acc EXCEPT !.description = Set(acc.description[2] \o " " \o word)]
    ELSE [acc EXCEPT !.description = Set(word)]

RECURSIVE Modification_many(_, _)
Modification_many(acc, in) ==
    IF in # <<>>
    THEN Modification_many(Modification_fold(acc, Head(in)), Tail(in))
    ELSE Ok(acc, in)

\* Modification::parse: all remaining tokens, joined with single spaces into
\* description = Set(text); the default modification when none remain
Modification_parse(in) == Modification_many(DefaultModification, in)

\* Report::parse: a Filter parse wrapped in a Report
Report_parse(in) ==
    LET f == Filter_parse(in)
    IN  IF f.ok THEN Ok([filter |-> f.value], f.rest) ELSE f

(***************************************************************************)
(* The subcommand grammars.                                                *)
(***************************************************************************)
Version_to_subcommand(tok) == [variant |-> "Version"]

Version_parse(in) ==
    LET r == alt(<<arg_matching_literal(in, "version"),
                   arg_matching_literal(in, "--version")>>)
    IN  IF r.ok THEN Ok(Version_to_subcommand(r.value), r.rest) ELSE r

\* a slip in the literal compared: --help taken for the summary flag
Help_to_subcommand_dd(tok) == [variant |-> "Help", summary |-> (tok = "--help")]

Help_to_subcommand(tok) == [variant |-> "Help", summary |-> (tok = "-h")]

Help_parse(in) ==
    LET r == alt(<<arg_matching_literal(in, "help"),
                   arg_matching_literal(in, "--help"),
                   arg_matching_literal(in, "-h")>>)
    IN  IF r.ok THEN Ok(Help_to_subcommand(r.value), r.rest) ELSE r

Add_to_subcommand(tok, modification) ==
    [variant |-> "Add", modification |-> modification]

Add_parse(in) ==
    LET k == arg_matching_literal(in, "add")
        m == Modification_parse(k.rest)
    IN  IF ~k.ok THEN k
        ELSE IF ~m.ok THEN m
        ELSE Ok(Add_to_subcommand(k.value, m.value), m.rest)

\* the keyword-driven post-processing of the parsed modification
Modify_match(kw, modification) ==
    CASE kw = "prepend" ->
            IF modification.description[1] = "Set"
            THEN [modification EXCEPT
                    !.description = Prepend(modification.description[2])]
            ELSE modification
      [] kw = "append" ->
            IF modification.description[1] = "Set"
            THEN [modification EXCEPT
                    !.description = Append_(modification.description[2])]
            ELSE modification
      [] kw = "start" -> [modification EXCEPT !.active = Some(TRUE)]
      [] kw = "stop" -> [modification EXCEPT !.active = Some(FALSE)]
      [] kw = "done" -> [modification EXCEPT !.status = Some("Completed")]
      [] OTHER -> modification

\* the prepend and append arms exchanged
Modify_to_subcommand_swapped(filter, kw, modification) ==
    [variant |-> "Modify", filter |-> filter,
     modification |-> Modify_match(IF kw = "prepend" THEN "append"
                                   ELSE IF kw = "append" THEN "prepend" ELSE kw,
                                   modification)]

\* the stop arm copied from the start arm
Modify_to_subcommand_stop_as_start(filter, kw, modification) ==
    [variant |-> "Modify", filter |-> filter,
     modification |-> Modify_match(IF kw = "stop" THEN "start" ELSE kw, modification)]

\* the done arm building a fresh Modification instead of updating the parsed one
Modify_to_subcommand_done_fresh(filter, kw, modification) ==
    [variant |-> "Modify", filter |-> filter,
     modification |-> Modify_match(kw, IF kw = "done" THEN DefaultModification
                                       ELSE modification)]

Modify_to_subcommand(filter, kw, modification) ==
    [variant |-> "Modify", filter |-> filter,
     modification |-> Modify_match(kw, modification)]

Modify_parse(in) ==
    LET f == Filter_parse(in)
        k == alt(<<arg_matching_literal(f.rest, "modify"),
                   arg_matching_literal(f.rest, "prepend"),
                   arg_matching_literal(f.rest, "append"),
                   arg_matching_literal(f.rest, "start"),
                   arg_matching_literal(f.rest, "stop"),
                   arg_matching_literal(f.rest, "done")>>)
        m == Modification_parse(k.rest)
    IN  IF ~f.ok THEN f
        ELSE IF ~k.ok THEN k
        ELSE IF ~m.ok THEN m
        ELSE Ok(Modify_to_subcommand(f.value, k.value, m.value), m.rest)

List_to_subcommand(report, tok) == [variant |-> "List", report |-> report]

\* the keyword matched before the report, as in Add
List_parse_keyword_first(in) ==
    LET k == arg_matching_literal(in, "list")
        r == Report_parse(k.rest)
    IN  IF ~k.ok THEN k
        ELSE IF ~r.ok THEN r
        ELSE Ok(List_to_subcommand(r.value, k.value), r.rest)

List_parse(in) ==
    LET r == Report_parse(in)
        k == arg_matching_literal(r.rest, "list")
    IN  IF ~r.ok THEN r
        ELSE IF ~k.ok THEN k
        ELSE Ok(List_to_subcommand(r.value, k.value), k.rest)

\* the debug flag taken from the wrong keyword
Info_to_subcommand_info(filter, tok) ==
    [variant |-> "Info", filter |-> filter, debug |-> (tok = "info")]

Info_to_subcommand(filter, tok) ==
    [variant |-> "Info", filter |-> filter, debug |-> (tok = "debug")]

Info_parse(in) ==
    LET f == Filter_parse(in)
        k == alt(<<arg_matching_literal(f.rest, "info"),
                   arg_matching_literal(f.rest, "debug")>>)
    IN  IF ~f.ok THEN f
        ELSE IF ~k.ok THEN k
        ELSE Ok(Info_to_subcommand(f.value, k.value), k.rest)

Gc_to_subcommand(tok) == [variant |-> "Gc"]

\* gc required to be the whole stream
Gc_parse_all_consuming(in) ==
    LET r == arg_matching_literal(in, "gc")
    IN  IF r.ok /\ r.rest = <<>> THEN Ok(Gc_to_subcommand(r.value), r.rest)
        ELSE Err(in)

Gc_parse(in) ==
    LET r == arg_matching_literal(in, "gc")
    IN  IF r.ok THEN Ok(Gc_to_subcommand(r.value), r.rest) ELSE r

Sync_to_subcommand(tok) == [variant |-> "Sync"]

\* the sync keyword made optional: success without consuming a token
Sync_parse_optional(in) ==
    LET r == arg_matching_literal(in, "sync")
    IN  IF r.ok THEN Ok(Sync_to_subcommand(r.value), r.rest)
        ELSE Ok(Sync_to_subcommand(""), in)

Sync_parse(in) ==
    LET r == arg_matching_literal(in, "sync")
    IN  IF r.ok THEN Ok(Sync_to_subcommand(r.value), r.rest) ELSE r

(***************************************************************************)
(* The dispatcher.                                                         *)
(***************************************************************************)
\* the Add grammar left out of the alternatives
Subcommand_parse_without_add(in) ==
    alt(<<Version_parse(in), Help_parse(in), Modify_parse(in),
          List_parse(in), Info_parse(in), Gc_parse(in), Sync_parse(in)>>)

\* the alternatives reordered so that a filter-prefixed grammar comes last
Subcommand_parse_info_last(in) ==
    alt(<<Version_parse(in), Help_parse(in), Add_parse(in), Modify_parse(in),
          List_parse(in), Gc_parse(in), Sync_parse(in), Info_parse(in)>>)

Subcommand_parse(in) ==
    alt(<<Version_parse(in), Help_parse(in), Add_parse(in), Modify_parse(in),
          List_parse(in), Info_parse(in), Gc_parse(in), Sync_parse(in)>>)

(***************************************************************************)
(* The usage registry: u.subcommands, a growing sequence of entries.       *)
(* Descriptions are written with their runs of whitespace collapsed.       *)
(***************************************************************************)
Entry(name, syntax, summary, description) ==
    [name |-> name, syntax |-> syntax, summary |-> summary,
     description |-> description]

Version_get_usage(reg) ==
    Append(reg, Entry("version", "version", "Show the TaskChampion version",
                      "Show the version of the TaskChampion binary"))

Help_get_usage(reg) == reg

Add_get_usage(reg) ==
    Append(reg, Entry("add", "add [modification]", "Add a new task",
        " Add a new, pending task to the list of tasks. The modification must include a description."))

Modify_get_usage(reg) ==
    reg \o <<
      Entry("modify", "[filter] modify [modification]", "Modify tasks",
        " Modify all tasks matching the filter."),
      Entry("prepend", "[filter] prepend [modification]", "Prepend task description",
        " Modify all tasks matching the filter by inserting the given description before each task's description."),
      Entry("append", "[filter] append [modification]", "Append task description",
        " Modify all tasks matching the filter by adding the given description to the end of each task's description."),
      Entry("start", "[filter] start [modification]", "Start tasks",
        " Start all tasks matching the filter, additionally applying any given modifications."),
      Entry("stop", "[filter] stop [modification]", "Stop tasks",
        " Stop all tasks matching the filter, additionally applying any given modifications."),
      Entry("done", "[filter] done [modification]", "Mark tasks as completed",
        " Mark all tasks matching the filter as completed, additionally applying any given modifications.")
    >>

List_get_usage(reg) ==
    Append(reg, Entry("list", "[filter] list", "List tasks",
        " Show a list of the tasks matching the filter"))

Info_get_usage(reg) ==
    reg \o <<
      Entry("info", "[filter] info", "Show tasks",
        " Show information about all tasks matching the fiter."),
      Entry("debug", "[filter] debug", "Show task debug details",
        " Show all key/value properties of the tasks matching the fiter.")
    >>

Gc_get_usage(reg) ==
    Append(reg, Entry("gc", "gc", "Perform 'garbage collection'",
        " Perform 'garbage collection'. This refreshes the list of pending tasks and their short id's."))

Sync_get_usage(reg) ==
    Append(reg, Entry("sync", "sync", "Synchronize this replica",
        " Synchronize this replica locally or against a remote server, as configured. Synchronization is a critical part of maintaining the task database, and should be done regularly, even if only locally. It is typically run in a crontask."))

\* entries pushed only when the registry does not hold them yet
Subcommand_get_usage_once(reg) ==
    IF \E i \in DOMAIN reg : reg[i].name = "version" THEN reg
    ELSE Sync_get_usage(Gc_get_usage(Info_get_usage(List_get_usage(
        Modify_get_usage(Add_get_usage(Help_get_usage(Version_get_usage(reg))))))))

Subcommand_get_usage(reg) ==
    Sync_get_usage(Gc_get_usage(Info_get_usage(List_get_usage(
        Modify_get_usage(Add_get_usage(Help_get_usage(Version_get_usage(reg))))))))

(***************************************************************************)
(* Specification of parsing: a token stream is given, and the dispatcher   *)
(* or one of the grammars is applied to it.                                *)
(***************************************************************************)
NotCalled == [ok |-> FALSE, kind |-> "NotCalled", rest |-> <<>>]

NoInput == [filter |-> DefaultFilter, kw |-> "", modification |-> DefaultModification]

NotApplied == [variant |-> "NotApplied"]

IdleModify == ts_in = NoInput /\ ts_out = NotApplied

IdleUsage == u0 = <<>> /\ u = <<>> /\ calls = 0

IdleParse == input = <<>> /\ result = NotCalled /\ called = "none"

Init ==
    /\ \E n \in 0..MaxLen : input \in StreamsOfLen(n)
    /\ result = NotCalled
    /\ called = "none"
    /\ IdleModify
    /\ IdleUsage

Call(name, r) ==
    /\ called = "none"
    /\ called' = name
    /\ result' = r
    /\ UNCHANGED <<input, ts_in, ts_out, u0, u, calls>>

ParseSubcommand == Call("Subcommand", Subcommand_parse(input))

ParseVersion == Call("Version", Version_parse(input))

ParseHelp == Call("Help", Help_parse(input))

ParseAdd == Call("Add", Add_parse(input))

ParseModify == Call("Modify", Modify_parse(input))

ParseList == Call("List", List_parse(input))

ParseInfo == Call("Info", Info_parse(input))

ParseGc == Call("Gc", Gc_parse(input))

ParseSync == Call("Sync", Sync_parse(input))

Next ==
    \/ ParseSubcommand
    \/ ParseVersion
    \/ ParseHelp
    \/ ParseAdd
    \/ ParseModify
    \/ ParseList
    \/ ParseInfo
    \/ ParseGc
    \/ ParseSync

Spec == Init /\ [][Next]_vars

(***************************************************************************)
(* Specification of the Modify post-processing: to_subcommand applied to   *)
(* any (Filter, keyword, Modification) the three-part match can hand it.   *)
(***************************************************************************)
ModifyKeywords == {"modify", "prepend", "append", "start", "stop", "done"}

Texts == {"foo", "foo bar"}

Descriptions ==
    {Unset} \cup {Set(t) : t \in Texts} \cup {Append_(t) : t \in Texts}
            \cup {Prepend(t) : t \in Texts}

Options(S) == {None} \cup {Some(x) : x \in S}

Modifications ==
    [description : Descriptions, status : Options(Status), active : Options(BOOLEAN)]

Filters == {DefaultFilter, [universe |-> <<"IdList", <<123>>>>],
            [universe |-> <<"IdList", <<12, 13>>>>]}

InitModify ==
    /\ ts_in \in [filter : Filters, kw : ModifyKeywords, modification : Modifications]
    /\ ts_out = NotApplied
    /\ IdleParse
    /\ IdleUsage

ApplyToSubcommand ==
    /\ ts_out = NotApplied
    /\ ts_out' = Modify_to_subcommand(ts_in.filter, ts_in.kw, ts_in.modification)
    /\ UNCHANGED <<input, result, called, ts_in, u0, u, calls>>

NextModify == ApplyToSubcommand

SpecModify == InitModify /\ [][NextModify]_vars

(***************************************************************************)
(* Specification of the usage registry: a caller-supplied registry, on     *)
(* which Subcommand::get_usage is called repeatedly.                       *)
(***************************************************************************)
UsageEntries == {Subcommand_get_usage(<<>>)[i] : i \in 1..Len(Subcommand_get_usage(<<>>))}

PriorEntries == UsageEntries \cup {Entry("other", "other", "Another entry", "")}

RECURSIVE RegistriesOfLen(_)
RegistriesOfLen(n) ==
    IF n = 0 THEN {<<>>}
    ELSE {Append(r, e) : r \in RegistriesOfLen(n - 1), e \in PriorEntries}

InitUsage ==
    /\ u0 \in UNION {RegistriesOfLen(n) : n \in 0..MaxPrior}
    /\ u = u0
    /\ calls = 0
    /\ IdleParse
    /\ IdleModify

GetUsage ==
    /\ calls < MaxCalls
    /\ u' = Subcommand_get_usage(u)
    /\ calls' = calls + 1
    /\ UNCHANGED <<input, result, called, ts_in, ts_out, u0>>

NextUsage == GetUsage

SpecUsage == InitUsage /\ [][NextUsage]_vars

(***************************************************************************)
(* Properties of the dispatcher and the grammars (specification Spec).     *)
(***************************************************************************)
GrammarNames == <<"Version", "Help", "Add", "Modify", "List", "Info", "Gc", "Sync">>

GrammarResults(in) ==
    <<Version_parse(in), Help_parse(in), Add_parse(in), Modify_parse(in),
      List_parse(in), Info_parse(in), Gc_parse(in), Sync_parse(in)>>

\* C1: Subcommand::parse returns exactly the result of the first grammar, in
\* the order Version, Help, Add, Modify, List, Info, Gc, Sync, that succeeds
\* on the stream, and that result is the variant named after the grammar; a
\* later grammar never overrides an earlier success.
C1_FirstSuccessWins ==
    called = "Subcommand" =>
        LET rs == GrammarResults(input)
        IN  \A i \in 1..8 :
                (rs[i].ok /\ \A j \in 1..(i - 1) : ~rs[j].ok) =>
                    /\ result = rs[i]
                    /\ result.value.variant = GrammarNames[i]

C1_Witness ==
    /\ called = "Subcommand"
    /\ Len(input) = 3
    /\ input[1] = "add"
    /\ input[3] \in {"list", "done"}
    /\ result.ok
    /\ result.value.variant = "Add"

\* C5: Help::parse succeeds exactly when the first token is help, --help or
\* -h, and then summary is TRUE exactly when that token is -h, whatever
\* tokens follow it.
C5_HelpSummary ==
    called = "Help" =>
        /\ result.ok <=> (input # <<>> /\ Head(input) \in {"help", "--help", "-h"})
        /\ result.ok =>
              result.value = [variant |-> "Help", summary |-> (Head(input) = "-h")]

C5_Witness ==
    /\ called = "Help"
    /\ Len(input) = 3
    /\ Head(input) = "-h"
    /\ result.ok
    /\ result.value.summary

\* C6: Info::parse succeeds exactly when the Filter parse is followed by the
\* token info or debug; the Info carries the Filter as parsed, and debug is
\* TRUE exactly when the keyword is debug.
C6_InfoDebug ==
    called = "Info" =>
        LET f == Filter_parse(input)
            followed == f.ok /\ f.rest # <<>> /\ Head(f.rest) \in {"info", "debug"}
        IN  /\ result.ok <=> followed
            /\ result.ok =>
                  result.value = [variant |-> "Info", filter |-> f.value,
                                  debug |-> (Head(f.rest) = "debug")]

C6_Witness ==
    /\ called = "Info"
    /\ input = <<"12,13", "debug">>
    /\ result.ok
    /\ result.value.debug
    /\ result.value.filter = [universe |-> <<"IdList", <<12, 13>>>>]

NoArgVariant(tok) ==
    CASE tok \in {"version", "--version"} -> "Version"
      [] tok = "gc" -> "Gc"
      [] tok = "sync" -> "Sync"

\* C7: on a stream whose first token is version, --version, gc or sync,
\* Subcommand::parse succeeds with Version, Version, Gc or Sync, consumes
\* exactly that token and returns the following tokens unchanged.
C7_NoArgCommands ==
    (called = "Subcommand" /\ input # <<>>
        /\ Head(input) \in {"version", "--version", "gc", "sync"}) =>
        /\ result.ok
        /\ result.value = [variant |-> NoArgVariant(Head(input))]
        /\ result.rest = Tail(input)

C7_Witness ==
    /\ called = "Subcommand"
    /\ input = <<"gc", "foo", "list">>
    /\ result.ok
    /\ result.value.variant = "Gc"
    /\ result.rest = <<"foo", "list">>

FilterOf(sub) ==
    IF sub.variant = "List" THEN sub.report.filter ELSE sub.filter

KeywordVariant(tok) ==
    CASE tok \in {"modify", "prepend", "append", "start", "stop", "done"} -> "Modify"
      [] tok = "list" -> "List"
      [] tok \in {"info", "debug"} -> "Info"

\* C9: a stream whose first token is a keyword of Modify, List or Info (no
\* filter token before it) parses, through the dispatcher and through the
\* keyword's own grammar, with the default Filter (default Report for list).
C9_EmptyFilter ==
    (input # <<>>
        /\ Head(input) \in {"modify", "prepend", "append", "start", "stop", "done",
                            "list", "info", "debug"}
        /\ called \in {"Subcommand", KeywordVariant(Head(input))}) =>
        /\ result.ok
        /\ result.value.variant = KeywordVariant(Head(input))
        /\ FilterOf(result.value) = DefaultFilter
        /\ Head(input) = "list" => result.value.report = DefaultReport

C9_Witness ==
    /\ called = "Subcommand"
    /\ input = <<"list">>
    /\ result = Ok([variant |-> "List", report |-> DefaultReport], <<>>)

(***************************************************************************)
(* Properties of the Modify post-processing (specification SpecModify).    *)
(***************************************************************************)
Applied == ts_out # NotApplied

Rewritten(kw, text) == IF kw = "prepend" THEN Prepend(text) ELSE Append_(text)

\* C2: with keyword prepend (append) a parsed description Set(text) becomes
\* Prepend(text) (Append(text)) and nothing else does: every other parsed
\* description (Unset, Append, Prepend) is returned unchanged, and the text
\* of the result is always the text that was parsed.  For the descriptions
\* the Modification parser produces (Unset, Set) the result is Prepend(text)
\* (Append(text)) if and only if Set(text) was parsed.
C2_PrependAppend ==
    (Applied /\ ts_in.kw \in {"prepend", "append"}) =>
        LET d == ts_in.modification.description
            o == ts_out.modification.description
        IN  /\ d[1] = "Set" => o = Rewritten(ts_in.kw, d[2])
            /\ d[1] # "Set" => o = d
            /\ (o # d) <=> (d[1] = "Set")
            /\ \A t \in Texts :
                  d[1] \in {"Unset", "Set"} =>
                      ((o = Rewritten(ts_in.kw, t)) <=> (d = Set(t)))
            /\ Len(o) = Len(d)
            /\ Len(o) = 2 => o[2] = d[2]

C2_Witness ==
    /\ Applied
    /\ ts_in.kw = "prepend"
    /\ ts_in.modification.description = Set("foo bar")
    /\ ts_out.modification.description = Prepend("foo bar")

\* C3: whatever Modification was parsed, start yields active = Some(true),
\* stop yields active = Some(false) and done yields status = Some(Completed),
\* overwriting the value parsed into that field.
C3_StartStopDone ==
    Applied =>
        /\ ts_in.kw = "start" => ts_out.modification.active = Some(TRUE)
        /\ ts_in.kw = "stop" => ts_out.modification.active = Some(FALSE)
        /\ ts_in.kw = "done" => ts_out.modification.status = Some("Completed")

C3_Witness ==
    /\ Applied
    /\ ts_in.kw = "stop"
    /\ ts_in.modification.active = Some(TRUE)
    /\ ts_in.modification.description = Prepend("foo")
    /\ ts_out.modification.active = Some(FALSE)

FieldOf(kw) ==
    CASE kw \in {"start", "stop"} -> {"active"}
      [] kw = "done" -> {"status"}
      [] kw \in {"prepend", "append"} -> {"description"}
      [] kw = "modify" -> {}

\* C4: the post-processing changes only the field its keyword names: none
\* for modify, active for start and stop, status for done, description for
\* prepend and append; the Filter is returned as parsed for all six.
C4_Frame ==
    Applied =>
        /\ ts_out.variant = "Modify"
        /\ ts_out.filter = ts_in.filter
        /\ DOMAIN ts_out.modification = DOMAIN ts_in.modification
        /\ \A fld \in DOMAIN ts_in.modification \ FieldOf(ts_in.kw) :
              ts_out.modification[fld] = ts_in.modification[fld]

C4_Witness ==
    /\ Applied
    /\ ts_in.kw = "done"
    /\ ts_in.filter = [universe |-> <<"IdList", <<123>>>>]
    /\ ts_in.modification = [description |-> Set("foo"), status |-> None,
                             active |-> Some(TRUE)]
    /\ ts_out.modification = [description |-> Set("foo"),
                              status |-> Some("Completed"), active |-> Some(TRUE)]

(***************************************************************************)
(* Properties of the usage registry (specification SpecUsage).             *)
(***************************************************************************)
UsageNames ==
    <<"version", "add", "modify", "prepend", "append", "start", "stop", "done",
      "list", "info", "debug", "gc", "sync">>

\* C10: get_usage is append-only: after any number of calls the registry is
\* the registry as supplied, unchanged and in place, followed once per call
\* by the same 13 entries in the order version, add, modify, prepend, append,
\* start, stop, done, list, info, debug, gc, sync, with no deduplication.
C10_AppendOnly ==
    LET n == Len(UsageNames)
    IN  /\ Len(u) = Len(u0) + n * calls
        /\ SubSeq(u, 1, Len(u0)) = u0
        /\ \A k \in 1..calls : \A i \in 1..n :
              /\ u[Len(u0) + n * (k - 1) + i].name = UsageNames[i]
              /\ u[Len(u0) + n * (k - 1) + i] = Subcommand_get_usage(<<>>)[i]

C10_Witness ==
    /\ calls = 2
    /\ Len(u0) = 2
    /\ u0[1].name = "version"
    /\ Len(u) = 28
    /\ u[3].name = "version"
    /\ u[16].name = "version"

(***************************************************************************)
(* The remainder of a successful parse (specification Spec).               *)
(***************************************************************************)
Consumed == Len(input) - Len(result.rest)

\* C11: whenever Subcommand::parse succeeds, the remainder is a proper suffix
\* of the input: the tokens after the consumed prefix, unchanged and in
\* order, with at least one token (the command keyword) consumed; so parse
\* never succeeds on the empty stream.
C11_ProperSuffix ==
    (called = "Subcommand" /\ result.ok) =>
        /\ input # <<>>
        /\ Consumed >= 1
        /\ Len(result.rest) = Len(input) - Consumed
        /\ \A i \in 1..Len(result.rest) : result.rest[i] = input[Consumed + i]

C11_Witness ==
    /\ called = "Subcommand"
    /\ input = <<"123", "info", "foo">>
    /\ result.ok
    /\ result.value.variant = "Info"
    /\ result.rest = <<"foo">>

====
